---- MODULE Spec2Model ----
(***************************************************************************)
(* Model of htcondor_es/history.py: the per-source history workers         *)
(* (process_schedd, process_startd), the checkpoint file                   *)
(* (load_checkpoint, update_checkpoint), the checkpoint consumer           *)
(* (_chkp_updater) and the coordinator (process_histories), together with  *)
(* the pool's lifetime in spider.py (main_driver).                         *)
(*                                                                         *)
(* Time is in seconds on one clock, `now`, counted from the starttime of   *)
(* the current run.  A cursor is modelled as a pair [id, ts]; the schedd   *)
(* cursor (a scalar timestamp in the code) keeps id = Unknown.             *)
(***************************************************************************)
EXTENDS Integers, Sequences, FiniteSets, TLC

\* ------------------------------------------------------------- bounds
MaxStream == 3        \* longest history a source holds
MaxTime == 60         \* the clock stops advancing here
TickSecs == 20        \* granularity of the clock
TimeoutSecs == 20     \* utils.TIMEOUT_MINS * 60, scaled down

\* ------------------------------------------------- program constants
MIN_WAIT == 10        \* future.get(time_remaining + 10)
HARD_BUFFER == 30     \* time_remaining(positive=False) > -30
Unknown == 0          \* {"GlobalJobId": "Unknown", "EnteredCurrentStatus": 0}

Sources == {1, 2, 3}
Startds == {3}        \* source 3 is a startd, the others are schedds
IsStartd(s) == s \in Startds

\* ------------------------------------------------------------ records
\* A job ad: GlobalJobId, EnteredCurrentStatus, the configured index
\* attribute (T, 0 when absent or not positive), QDate, and whether
\* convert.to_json succeeds on it.
Ad(i, e, t, q, c) == [id |-> i, ECS |-> e, T |-> t, QDate |-> q, ok |-> c]

RecordPool ==
    { Ad(1, 1, 7, 0, TRUE),
      Ad(2, 2, 7, 0, TRUE),
      Ad(3, 2, 0, 0, FALSE),
      Ad(4, 3, 0, 0, TRUE),
      Ad(5, 3, 0, 0, FALSE) }

\* the ads of the pool that convert
OkPool == { ad \in RecordPool : ad.ok }

RECURSIVE SeqsOver(_, _)
\* all sequences without repetition over S of length at most n
SeqsOver(S, n) ==
    IF n = 0 THEN { <<>> }
    ELSE LET shorter == SeqsOver(S, n - 1)
             longest == { p \in shorter : Len(p) = n - 1 }
         IN  shorter \cup
             UNION { { Append(p, x) :
                         x \in { y \in S : \A i \in 1..Len(p) : p[i] # y } } :
                     p \in longest }

Histories == SeqsOver(RecordPool, MaxStream)

\* args: read_only, dry_run, es_feed_schedd_history / es_feed_startd_history,
\* es_bunch_size, process_max_documents (0: no cap)
Args(ro, dry, feed, bunch, cap) ==
    [read_only |-> ro, dry_run |-> dry, es_feed |-> feed,
     es_bunch_size |-> bunch, process_max_documents |-> cap]

ArgsSet ==
    { Args(FALSE, FALSE, TRUE, 2, 0),
      Args(FALSE, FALSE, TRUE, 2, 1),
      Args(TRUE, FALSE, TRUE, 2, 0),
      Args(TRUE, TRUE, TRUE, 2, 0) }

VARIABLES
    now,        \* seconds since starttime of the current run
    runs,       \* 1 in the first run of main_driver, 2 in the run after it
    args,       \* the command line of the runs
    fleet,      \* schedd_ads and startd_ads: the sources, in dispatch order
    history,    \* per source: the job ads it holds, in the order it yields them
    ckfile,     \* checkpoint.json
    sink,       \* the documents the document store holds: <<source, index, id>>
    queue,      \* checkpoint_queue
    wk,         \* per source: the state of its pool task
    cpc,        \* process_histories: position
    checkpoint, \* process_histories: the mapping load_checkpoint returned
    futures,    \* process_histories: index of the future being waited on
    waitUntil,  \* process_histories: when the running future.get times out
    timed_out,  \* process_histories: the hard-cancel flag
    terminated, \* whether pool.terminate() has run
    upd,        \* _chkp_updater: position, job in hand, loaded mapping
    putlog,     \* history: every item put on checkpoint_queue, in order
    written,    \* history: every job update_checkpoint has written, in order
    softTimed   \* history: the sources whose future.get raised TimeoutError

vars == <<now, runs, args, fleet, history, ckfile, sink, queue, wk, cpc,
          checkpoint, futures, waitUntil, timed_out, terminated, upd,
          putlog, written, softTimed>>

\* ------------------------------------------------------------ helpers
QueryPoolSize == 2    \* --query_pool_size: processes of the pool

Cursor(i, t) == [id |-> i, ts |-> t]
DefaultCursor == Cursor(Unknown, 0)

\* checkpoint_queue.put(None)
PoisonPill == [name |-> 0, cursor |-> DefaultCursor]
Job(s, c) == [name |-> s, cursor |-> c]

\* utils.time_remaining: seconds left until starttime + TIMEOUT
time_remaining(t) == TimeoutSecs - t

\* _LAUNCH_TIME = int(time.time()), taken when the module is imported
LAUNCH_TIME == 100 * runs

\* time.time() at the instant t of the run's clock: spider.py takes
\* starttime = time.time() as it begins, right after the import
WallClock(t) == LAUNCH_TIME + t

\* an index_time that looks at QDate before EnteredCurrentStatus
index_time_queued_first(ad) ==
    IF ad.T > 0 THEN ad.T
    ELSE IF ad.QDate > 0 THEN ad.QDate
    ELSE IF ad.ECS > 0 THEN ad.ECS
    ELSE LAUNCH_TIME

\* lines 21-41
index_time(ad) ==
    IF ad.T > 0 THEN ad.T
    ELSE IF ad.ECS > 0 THEN ad.ECS
    ELSE IF ad.QDate > 0 THEN ad.QDate
    ELSE LAUNCH_TIME

\* elastic.get_index: the bucket a timestamp falls in
get_index(t) == t

\* convert.unique_doc_id
unique_doc_id(ad) == ad.id

\* a query for the ads newer than the cursor only
history_query_strict(ad, last_completion) == ad.ECS > last_completion.ts

\* history_query of process_schedd
history_query(ad, last_completion) == ad.ECS >= last_completion.ts

\* since_str of process_startd
since_str(ad, since) == ad.id = since.id /\ ad.ECS = since.ts

RECURSIVE UntilSince(_, _)
\* startd.history("True", [], since=since_str): the ads the startd yields
\* before the first one that matches the since expression
UntilSince(h, since) ==
    IF h = <<>> \/ since_str(Head(h), since) THEN <<>>
    ELSE <<Head(h)>> \o UntilSince(Tail(h), since)

SchedHistory(h, last_completion) ==
    SelectSeq(h, LAMBDA ad : history_query(ad, last_completion))

\* a startd query that filters on the timestamp and the id instead of
\* stopping at the ad of the cursor
history_iter_by_timestamp(s, c) ==
    IF args.dry_run THEN <<>>
    ELSE IF IsStartd(s)
         THEN SelectSeq(history[s],
                  LAMBDA ad : \/ ad.ECS > c.ts
                              \/ ad.ECS = c.ts /\ ad.id # c.id)
         ELSE SchedHistory(history[s], c)

\* history_iter of a worker that starts from cursor c
history_iter(s, c) ==
    IF args.dry_run THEN <<>>
    ELSE IF IsStartd(s) THEN UntilSince(history[s], c)
    ELSE SchedHistory(history[s], c)

\* a worker that takes the cursor of the ad it processed last
NewCursorOfLastAd(s, last, job_ad) ==
    Cursor(IF IsStartd(s) THEN job_ad.id ELSE Unknown, job_ad.ECS)

\* lines 125-127 and 271-277: the cursor after job_ad has been processed
NewCursor(s, last, job_ad) ==
    IF job_ad.ECS > last.ts
    THEN Cursor(IF IsStartd(s) THEN job_ad.id ELSE Unknown, job_ad.ECS)
    ELSE last

\* whether this worker sends to the document store
Feeding == ~args.read_only /\ args.es_feed

\* buffered_ads: a sequence of [idx, ads], in the order the keys were inserted
BufPos(buf, idx) ==
    IF \E i \in 1..Len(buf) : buf[i].idx = idx
    THEN CHOOSE i \in 1..Len(buf) : buf[i].idx = idx
    ELSE 0

\* buffered_ads.setdefault(idx, []).append(doc)
BufAppend(buf, idx, doc) ==
    IF BufPos(buf, idx) = 0
    THEN Append(buf, [idx |-> idx, ads |-> <<doc>>])
    ELSE [buf EXCEPT ![BufPos(buf, idx)].ads = Append(@, doc)]

\* buffered_ads[idx] = []
BufClear(buf, idx) == [buf EXCEPT ![BufPos(buf, idx)].ads = <<>>]

\* the documents elastic.post_ads(es.handle, idx, ad_list) upserts
Posted(s, idx, ad_list) ==
    { <<s, idx, ad_list[i]>> : i \in 1..Len(ad_list) }

RECURSIVE PostedAll(_, _)
PostedAll(s, bufs) ==
    IF bufs = <<>> THEN {}
    ELSE Posted(s, Head(bufs).idx, Head(bufs).ads) \cup PostedAll(s, Tail(bufs))

\* checkpoint.json: absent, a well-formed mapping, or cut short by open("w")
NoFile == [state |-> "absent", map |-> <<>>]
Lookup(m, s) == IF s \in DOMAIN m THEN m[s] ELSE DefaultCursor
\* a write that keeps the new entry only
StoreAlone(m, s, c) == [x \in {s} |-> c]

\* checkpoint[name] = completion_date
Store(m, s, c) == [x \in (DOMAIN m) \cup {s} |-> IF x = s THEN c ELSE m[x]]

\* a pool task that was never submitted
NoTask ==
    [pc |-> "none", stream |-> <<>>, pos |-> 1, start |-> DefaultCursor,
     last |-> DefaultCursor, buffered |-> <<>>, count |-> 0,
     sent_warnings |-> FALSE, timed_out |-> FALSE, alerts |-> 0, how |-> "",
     my_start |-> 0]    \* my_start: time.time() of line 50, kept while
                        \* the worker runs

\* pool.apply_async(process_schedd / process_startd, (starttime, cursor, ...))
Submitted(c) == [NoTask EXCEPT !.pc = "queued", !.start = c, !.last = c]

Running(s) == wk[s].pc \in {"loop", "flush"}
Finished(s) == wk[s].pc \in {"done", "raised_transport", "raised_other"}

\* the pool runs its tasks in the order they were submitted, on
\* query_pool_size processes
MayStart(s) ==
    /\ wk[s].pc = "queued"
    /\ ~terminated
    /\ Cardinality({ t \in Sources : Running(t) }) < QueryPoolSize
    /\ \A i, j \in 1..Len(fleet) :
           (fleet[j] = s /\ i < j) => wk[fleet[i]].pc # "queued"

\* ------------------------------------------------------------ workers
OtherVars ==
    <<now, runs, args, fleet, history, ckfile, cpc, checkpoint, futures,
      waitUntil, timed_out, terminated, upd, written, softTimed>>

\* process_schedd lines 50-82, process_startd lines 199-229: the preflight
\* check, then the query
process_start(s) ==
    /\ MayStart(s)
    /\ LET w == wk[s]
           it == history_iter(s, w.start)
       IN  wk' = [wk EXCEPT ![s] =
                IF time_remaining(now) < 0
                THEN [w EXCEPT !.pc = "done", !.how = "preflight"]
                ELSE [w EXCEPT !.stream = it, !.my_start = WallClock(now),
                               !.pc = IF it = <<>> THEN "flush" ELSE "loop",
                               !.how = IF it = <<>> THEN "exhausted" ELSE ""]]
    /\ UNCHANGED <<sink, queue, putlog>>
    /\ UNCHANGED OtherVars

\* lines 61-76 and 212-224 stand outside the try: an exception of
\* htcondor.Schedd / htcondor.Startd or elastic.get_server_handle leaves
\* the worker and is re-raised by future.get
process_setup_fault(s) ==
    /\ MayStart(s)
    /\ time_remaining(now) >= 0
    /\ wk' = [wk EXCEPT ![s].pc = "raised_other", ![s].how = "setup"]
    /\ UNCHANGED <<sink, queue, putlog>>
    /\ UNCHANGED OtherVars

\* the worker after lines 121-143 (269-293) for a converted job_ad
AfterRecord(s, w, job_ad, buf) ==
    LET count == w.count + 1
        last == NewCursor(s, w.last, job_ad)
        late == time_remaining(now) < 0
        capped == args.process_max_documents > 0
                  /\ count > args.process_max_documents
        more == w.pos < Len(w.stream)
    IN  [w EXCEPT !.buffered = buf, !.count = count, !.last = last,
                  !.pos = @ + 1,
                  !.timed_out = late,
                  !.pc = IF late \/ capped \/ ~more THEN "flush" ELSE "loop",
                  !.how = IF late THEN "deadline"
                          ELSE IF capped THEN "cap"
                          ELSE IF ~more THEN "exhausted" ELSE @]

\* a worker that also alerts when sent_warnings is already set
ConversionAlertsAlways(w) ==
    [w EXCEPT !.alerts = @ + 1,
              !.sent_warnings = TRUE,
              !.pos = @ + 1,
              !.pc = IF w.pos < Len(w.stream) THEN "loop" ELSE "flush",
              !.how = IF w.pos < Len(w.stream) THEN @ ELSE "exhausted"]

\* lines 84-99 (232-247): convert.to_json raised: warn, alert once, continue
ConversionFailed(w) ==
    [w EXCEPT !.alerts = IF w.sent_warnings THEN @ ELSE @ + 1,
              !.sent_warnings = TRUE,
              !.pos = @ + 1,
              !.pc = IF w.pos < Len(w.stream) THEN "loop" ELSE "flush",
              !.how = IF w.pos < Len(w.stream) THEN @ ELSE "exhausted"]

\* one pass of the for loop, lines 83-143 (231-293)
process_record(s) ==
    /\ wk[s].pc = "loop"
    /\ LET w == wk[s]
           job_ad == w.stream[w.pos]
           idx == get_index(index_time(job_ad))
           buf == BufAppend(w.buffered, idx, unique_doc_id(job_ad))
           ad_list == buf[BufPos(buf, idx)].ads
           full == Len(ad_list) = args.es_bunch_size
       IN  IF ~job_ad.ok
           THEN /\ wk' = [wk EXCEPT ![s] = ConversionFailed(w)]
                /\ sink' = sink
           ELSE IF full
           THEN /\ sink' = IF Feeding THEN sink \cup Posted(s, idx, ad_list)
                           ELSE sink
                /\ wk' = [wk EXCEPT ![s] =
                            AfterRecord(s, w, job_ad, BufClear(buf, idx))]
           ELSE /\ sink' = sink
                /\ wk' = [wk EXCEPT ![s] = AfterRecord(s, w, job_ad, buf)]
    /\ UNCHANGED <<queue, putlog>>
    /\ UNCHANGED OtherVars

\* elastic.post_ads at line 112 (260) raises: the except clause of line 151
\* (301) takes it, the batch stays in buffered_ads and the loop is left
process_record_post_fails(s) ==
    /\ wk[s].pc = "loop"
    /\ Feeding
    /\ LET w == wk[s]
           job_ad == w.stream[w.pos]
           idx == get_index(index_time(job_ad))
           buf == BufAppend(w.buffered, idx, unique_doc_id(job_ad))
       IN  /\ job_ad.ok
           /\ Len(buf[BufPos(buf, idx)].ads) = args.es_bunch_size
           /\ wk' = [wk EXCEPT ![s] =
                        [w EXCEPT !.buffered = buf, !.pos = @ + 1,
                                  !.pc = "flush", !.how = "sinkerr"]]
    /\ UNCHANGED <<sink, queue, putlog>>
    /\ UNCHANGED OtherVars

\* a worker that throws its buffered ads away when the iterator raises
stream_fault_drops_buffer(s) ==
    /\ wk[s].pc = "loop"
    /\ wk' = [wk EXCEPT ![s].pc = "flush", ![s].how = "fault",
                         ![s].buffered = <<>>]
    /\ UNCHANGED <<sink, queue, putlog>>
    /\ UNCHANGED OtherVars

\* the history iterator raises (lines 145-158, 295-308): the loop is left
stream_fault(s) ==
    /\ wk[s].pc = "loop"
    /\ wk' = [wk EXCEPT ![s].pc = "flush", ![s].how = "fault"]
    /\ UNCHANGED <<sink, queue, putlog>>
    /\ UNCHANGED OtherVars

\* the batches of buffered_ads that hold ads, in dict order
Remaining(w) == SelectSeq(w.buffered, LAMBDA b : b.ads # <<>>)

\* a worker that puts its checkpoint whether it timed out or not
PutCheckpointAlways(s, w) == <<Job(s, w.last)>>

\* lines 186-189 (336-339)
PutCheckpoint(s, w) ==
    IF ~w.timed_out THEN <<Job(s, w.last)>> ELSE <<>>

\* lines 160-191 (310-341): post the remaining ads, then put the checkpoint
post_remaining(s) ==
    /\ wk[s].pc = "flush"
    /\ LET w == wk[s]
           rem == Remaining(w)
       IN  /\ sink' = IF Feeding THEN sink \cup PostedAll(s, rem) ELSE sink
           /\ queue' = queue \o PutCheckpoint(s, w)
           /\ putlog' = putlog \o PutCheckpoint(s, w)
           /\ wk' = [wk EXCEPT ![s].pc = "done", ![s].buffered = <<>>,
                                   ![s].my_start = 0]
    /\ UNCHANGED OtherVars

\* elastic.post_ads at line 170 (320) raises after k batches were posted:
\* the exception leaves the worker and no checkpoint is put
post_remaining_fails(s) ==
    /\ wk[s].pc = "flush"
    /\ Feeding
    /\ LET w == wk[s]
           rem == Remaining(w)
       IN  \E k \in 0..(Len(rem) - 1) :
              /\ sink' = sink \cup PostedAll(s, SubSeq(rem, 1, k))
              /\ wk' = [wk EXCEPT ![s].pc = "raised_transport",
                                      ![s].my_start = 0]
    /\ UNCHANGED <<queue, putlog>>
    /\ UNCHANGED OtherVars

\* --------------------------------------------------- checkpoint file
\* load_checkpoint, lines 344-351: an absent file reads as the empty
\* mapping; json.load of a file cut short raises (not an IOError)
Readable(f) == f.state # "truncated"
load_checkpoint(f) == f.map

\* a pool that is not terminated
TerminateNothing(w) == w

\* pool.terminate(): the worker processes are killed, queued tasks never run
Terminate(w) ==
    IF w.pc \in {"queued", "loop", "flush"}
    THEN [w EXCEPT !.pc = "killed", !.my_start = 0]
    ELSE w

\* ------------------------------------------------- process_histories
WorkerVars == <<sink, history, args, fleet, runs>>

\* lines 369-403: load the checkpoint, submit one task per source
process_histories_dispatch ==
    /\ cpc = "start"
    /\ IF Readable(ckfile)
       THEN /\ checkpoint' = load_checkpoint(ckfile)
            /\ wk' = [s \in Sources |->
                        IF \E i \in 1..Len(fleet) : fleet[i] = s
                        THEN Submitted(Lookup(checkpoint', s))
                        ELSE NoTask]
            /\ cpc' = "dispatched"
       ELSE /\ cpc' = "raised"
            /\ UNCHANGED <<checkpoint, wk>>
    /\ UNCHANGED <<now, ckfile, queue, futures, waitUntil, timed_out,
                   terminated, upd, putlog, written, softTimed>>
    /\ UNCHANGED WorkerVars

\* an updater that is given a new queue when it starts
chkp_updater_start_new_queue ==
    /\ cpc = "dispatched"
    /\ upd' = [upd EXCEPT !.pc = "get"]
    /\ cpc' = "loop"
    /\ futures' = 1
    /\ queue' = <<>>
    /\ UNCHANGED <<now, ckfile, wk, checkpoint, waitUntil, timed_out,
                   terminated, putlog, written, softTimed>>
    /\ UNCHANGED WorkerVars

\* lines 419-420: chkp_updater.start()
chkp_updater_start ==
    /\ cpc = "dispatched"
    /\ upd' = [upd EXCEPT !.pc = "get"]
    /\ cpc' = "loop"
    /\ futures' = 1
    /\ UNCHANGED <<now, ckfile, queue, wk, checkpoint, waitUntil, timed_out,
                   terminated, putlog, written, softTimed>>
    /\ UNCHANGED WorkerVars

\* a timeout of the remaining time, and of ten seconds at least
WaitTimeoutAtLeastTen(t) ==
    IF time_remaining(t) > MIN_WAIT THEN time_remaining(t) ELSE MIN_WAIT

\* line 430: the timeout handed to future.get
WaitTimeout(t) == time_remaining(t) + MIN_WAIT

\* line 427: whether the coordinator still waits on a future
StillWaiting(t) == time_remaining(t) > -HARD_BUFFER

\* lines 425-430 and 451-454: the head of one pass of the wait loop
wait_begin ==
    /\ cpc = "loop"
    /\ IF StillWaiting(now)
       THEN /\ cpc' = "wait"
            /\ waitUntil' = now + WaitTimeout(now)
            /\ timed_out' = timed_out
       ELSE /\ cpc' = "poison"
            /\ timed_out' = TRUE
            /\ waitUntil' = waitUntil
    /\ UNCHANGED <<now, ckfile, queue, wk, checkpoint, futures, terminated,
                   upd, putlog, written, softTimed>>
    /\ UNCHANGED WorkerVars

\* the for loop of line 425 moves to the next future, or ends
NextFuture ==
    /\ futures' = futures + 1
    /\ cpc' = IF futures < Len(fleet) THEN "loop" ELSE "poison"

\* future.get returns the worker's result
wait_returns ==
    /\ cpc = "wait"
    /\ wk[fleet[futures]].pc = "done"
    /\ NextFuture
    /\ UNCHANGED <<now, ckfile, queue, wk, checkpoint, waitUntil, timed_out,
                   terminated, upd, putlog, written, softTimed>>
    /\ UNCHANGED WorkerVars

\* lines 431-439: future.get raises multiprocessing.TimeoutError
wait_timeout ==
    /\ cpc = "wait"
    /\ ~Finished(fleet[futures])
    /\ now >= waitUntil
    /\ softTimed' = softTimed \cup {fleet[futures]}
    /\ NextFuture
    /\ UNCHANGED <<now, ckfile, queue, wk, checkpoint, waitUntil, timed_out,
                   terminated, upd, putlog, written>>
    /\ UNCHANGED WorkerVars

\* lines 440-450: future.get re-raises the worker's TransportError
wait_transport_error ==
    /\ cpc = "wait"
    /\ wk[fleet[futures]].pc = "raised_transport"
    /\ NextFuture
    /\ UNCHANGED <<now, ckfile, queue, wk, checkpoint, waitUntil, timed_out,
                   terminated, upd, putlog, written, softTimed>>
    /\ UNCHANGED WorkerVars

\* future.get re-raises any other exception of the worker: no except
\* clause of lines 428-450 takes it and it leaves process_histories
wait_other_error ==
    /\ cpc = "wait"
    /\ wk[fleet[futures]].pc = "raised_other"
    /\ cpc' = "raised"
    /\ UNCHANGED <<now, ckfile, queue, wk, checkpoint, futures, waitUntil,
                   timed_out, terminated, upd, putlog, written, softTimed>>
    /\ UNCHANGED WorkerVars

\* lines 455-458: pool.terminate() after a hard cancel, then the poison pill
send_poison_pill ==
    /\ cpc = "poison"
    /\ wk' = IF timed_out THEN [s \in Sources |-> Terminate(wk[s])] ELSE wk
    /\ terminated' = timed_out
    /\ queue' = Append(queue, PoisonPill)
    /\ putlog' = Append(putlog, PoisonPill)
    /\ cpc' = "join"
    /\ UNCHANGED <<now, ckfile, checkpoint, futures, waitUntil, timed_out,
                   upd, written, softTimed>>
    /\ UNCHANGED WorkerVars

\* a coordinator that returns without joining the updater
join_not_waiting ==
    /\ cpc = "join"
    /\ cpc' = "returned"
    /\ UNCHANGED <<now, ckfile, queue, wk, checkpoint, futures, waitUntil,
                   timed_out, terminated, upd, putlog, written, softTimed>>
    /\ UNCHANGED WorkerVars

\* line 459: chkp_updater.join()
join ==
    /\ cpc = "join"
    /\ upd.pc \in {"done", "failed"}
    /\ cpc' = "returned"
    /\ UNCHANGED <<now, ckfile, queue, wk, checkpoint, futures, waitUntil,
                   timed_out, terminated, upd, putlog, written, softTimed>>
    /\ UNCHANGED WorkerVars

\* spider.py lines 35-55: the with block of main_driver is left, by return
\* or by the exception, and Pool.__exit__ terminates the pool
pool_exit ==
    /\ cpc \in {"returned", "raised"}
    /\ wk' = [s \in Sources |-> Terminate(wk[s])]
    /\ terminated' = TRUE
    /\ cpc' = IF cpc = "raised" THEN "crashed" ELSE "exited"
    /\ UNCHANGED <<now, ckfile, queue, checkpoint, futures, waitUntil,
                   timed_out, upd, putlog, written, softTimed>>
    /\ UNCHANGED WorkerVars

\* ----------------------------------------------------- _chkp_updater
\* an updater whose call of update_checkpoint is never reached
chkp_get_no_update ==
    /\ upd.pc = "get"
    /\ queue # <<>>
    /\ queue' = Tail(queue)
    /\ upd' = IF Head(queue) = PoisonPill
              THEN [upd EXCEPT !.pc = "done"]
              ELSE [upd EXCEPT !.job = Head(queue)]
    /\ UNCHANGED <<now, ckfile, wk, cpc, checkpoint, futures, waitUntil,
                   timed_out, terminated, putlog, written, softTimed>>
    /\ UNCHANGED WorkerVars

\* lines 407-411: checkpoint_queue.get()
chkp_get ==
    /\ upd.pc = "get"
    /\ queue # <<>>
    /\ queue' = Tail(queue)
    /\ upd' = IF Head(queue) = PoisonPill
              THEN [upd EXCEPT !.pc = "done"]
              ELSE [upd EXCEPT !.pc = "update", !.job = Head(queue)]
    /\ UNCHANGED <<now, ckfile, wk, cpc, checkpoint, futures, waitUntil,
                   timed_out, terminated, putlog, written, softTimed>>
    /\ UNCHANGED WorkerVars

\* lines 412-416: the manager of the queue is gone (the interpreter of a
\* run that ended by an exception shuts it down) and get raises EOFError
chkp_eof ==
    /\ upd.pc = "get"
    /\ cpc = "crashed"
    /\ upd' = [upd EXCEPT !.pc = "done", !.eof = TRUE]
    /\ UNCHANGED <<now, ckfile, queue, wk, cpc, checkpoint, futures,
                   waitUntil, timed_out, terminated, putlog, written,
                   softTimed>>
    /\ UNCHANGED WorkerVars

\* update_checkpoint lines 355-359: load the mapping, set the key, and
\* open("checkpoint.json", "w"), which cuts the file to nothing
update_checkpoint_open ==
    /\ upd.pc = "update"
    /\ IF Readable(ckfile)
       THEN /\ upd' = [upd EXCEPT !.pc = "dump",
                          !.checkpoint = Store(load_checkpoint(ckfile),
                                               upd.job.name, upd.job.cursor)]
            /\ ckfile' = [state |-> "truncated", map |-> <<>>]
       ELSE /\ upd' = [upd EXCEPT !.pc = "failed"]
            /\ ckfile' = ckfile
    /\ UNCHANGED <<now, queue, wk, cpc, checkpoint, futures, waitUntil,
                   timed_out, terminated, putlog, written, softTimed>>
    /\ UNCHANGED WorkerVars

\* update_checkpoint line 360: json.dump writes the whole mapping
update_checkpoint_dump ==
    /\ upd.pc = "dump"
    /\ ckfile' = [state |-> "ok", map |-> upd.checkpoint]
    /\ written' = Append(written, upd.job)
    /\ upd' = [upd EXCEPT !.pc = "get"]
    /\ UNCHANGED <<now, queue, wk, cpc, checkpoint, futures, waitUntil,
                   timed_out, terminated, putlog, softTimed>>
    /\ UNCHANGED WorkerVars

\* ------------------------------------------------------- environment
NoUpdater ==
    [pc |-> "off", job |-> PoisonPill, checkpoint |-> <<>>, eof |-> FALSE]

\* the clock advances, for as long as somebody may still read it
Tick ==
    /\ now < MaxTime
    /\ \/ cpc \in {"start", "dispatched", "loop", "wait"}
       \/ \E s \in Sources : wk[s].pc \in {"queued", "loop"}
    /\ now' = now + TickSecs
    /\ UNCHANGED <<ckfile, queue, wk, cpc, checkpoint, futures, waitUntil,
                   timed_out, terminated, upd, putlog, written, softTimed>>
    /\ UNCHANGED WorkerVars

\* the run that follows the first run of spider.py starts: a new process,
\* the same checkpoint.json, document store and sources
next_run ==
    /\ cpc \in {"exited", "crashed"}
    /\ upd.pc \in {"off", "done", "failed"}
    /\ runs = 1
    /\ runs' = runs + 1
    /\ now' = 0
    /\ queue' = <<>>
    /\ wk' = [s \in Sources |-> NoTask]
    /\ cpc' = "start"
    /\ checkpoint' = <<>>
    /\ futures' = 0
    /\ waitUntil' = 0
    /\ timed_out' = FALSE
    /\ terminated' = FALSE
    /\ upd' = NoUpdater
    /\ putlog' = <<>>
    /\ written' = <<>>
    /\ softTimed' = {}
    /\ UNCHANGED <<args, fleet, history, ckfile, sink>>

\* ---------------------------------------------------- specifications
InitRun ==
    /\ now = 0
    /\ runs = 1
    /\ ckfile = NoFile
    /\ sink = {}
    /\ queue = <<>>
    /\ wk = [s \in Sources |-> NoTask]
    /\ cpc = "start"
    /\ checkpoint = <<>>
    /\ futures = 0
    /\ waitUntil = 0
    /\ timed_out = FALSE
    /\ terminated = FALSE
    /\ upd = NoUpdater
    /\ putlog = <<>>
    /\ written = <<>>
    /\ softTimed = {}

\* the histories of the sources of the fleet
FleetHistory ==
    [s \in Sources |->
        IF s = 2 THEN <<Ad(2, 2, 7, 0, TRUE), Ad(1, 1, 7, 0, TRUE)>>
        ELSE <<Ad(2, 2, 7, 0, TRUE)>>]

\* a fleet of two schedds and a startd
Init ==
    /\ InitRun
    /\ fleet = <<1, 2, 3>>
    /\ args = Args(FALSE, FALSE, TRUE, 2, 0)
    /\ history = FleetHistory

\* one source, a schedd or a startd, with any history and command line
InitOne ==
    /\ InitRun
    /\ fleet \in { <<1>>, <<3>> }
    /\ args \in ArgsSet
    /\ \E h \in Histories :
          history = [s \in Sources |-> IF s = fleet[1] THEN h ELSE <<>>]

Worker(s) ==
    \/ process_start(s)
    \/ process_setup_fault(s)
    \/ process_record(s)
    \/ process_record_post_fails(s)
    \/ stream_fault(s)
    \/ post_remaining(s)
    \/ post_remaining_fails(s)

Next ==
    \/ \E s \in Sources : Worker(s)
    \/ process_histories_dispatch
    \/ chkp_updater_start
    \/ wait_begin
    \/ wait_returns
    \/ wait_timeout
    \/ wait_transport_error
    \/ wait_other_error
    \/ send_poison_pill
    \/ join
    \/ pool_exit
    \/ chkp_get
    \/ chkp_eof
    \/ update_checkpoint_open
    \/ update_checkpoint_dump
    \/ Tick

\* one run of the fleet
Spec == Init /\ [][Next]_vars

\* one run over one source
SpecOne == InitOne /\ [][Next]_vars

\* one source whose ads all convert, with or without a record cap
InitRuns ==
    /\ InitRun
    /\ fleet \in { <<1>>, <<3>> }
    /\ args \in { Args(FALSE, FALSE, TRUE, 2, 0), Args(FALSE, FALSE, TRUE, 2, 1) }
    /\ \E h \in SeqsOver(OkPool, MaxStream) :
          history = [s \in Sources |-> IF s = fleet[1] THEN h ELSE <<>>]

NextRuns == Next \/ next_run

\* a run over one source, and the run that follows it
SpecRuns == InitRuns /\ [][NextRuns]_vars

\* ads of a startd, two of them with the same EnteredCurrentStatus
TiePool ==
    { Ad(2, 2, 7, 0, TRUE),
      Ad(6, 2, 7, 0, TRUE),
      Ad(7, 3, 7, 0, TRUE) }

\* a startd yields its history newest first
NewestFirst(h) ==
    \A i, j \in 1..Len(h) : i < j => h[i].ECS >= h[j].ECS

\* one startd whose history holds jobs that ended in the same second
InitTie ==
    /\ InitRun
    /\ fleet = <<3>>
    /\ args \in { Args(FALSE, FALSE, TRUE, 2, 0), Args(FALSE, FALSE, TRUE, 2, 1) }
    /\ \E h \in { g \in SeqsOver(TiePool, MaxStream) : NewestFirst(g) } :
          history = [s \in Sources |-> IF s = fleet[1] THEN h ELSE <<>>]

\* between two runs a job ends on the startd: its ad is the newest of the
\* history that startd.history (line 227) reads in the next run
job_completes(s) ==
    /\ cpc \in {"exited", "crashed"}
    /\ runs = 1
    /\ s = fleet[1]
    /\ Len(history[s]) < MaxStream
    /\ \E ad \in TiePool :
          /\ \A i \in 1..Len(history[s]) : history[s][i] # ad
          /\ NewestFirst(<<ad>> \o history[s])
          /\ history' = [history EXCEPT ![s] = <<ad>> \o @]
    /\ UNCHANGED <<now, runs, args, fleet, ckfile, sink, queue, wk, cpc,
                   checkpoint, futures, waitUntil, timed_out, terminated,
                   upd, putlog, written, softTimed>>

NextTie == NextRuns \/ \E s \in Startds : job_completes(s)

\* two runs over a startd on which jobs end between the runs
SpecTie == InitTie /\ [][NextTie]_vars

\* ads with and without a positive index attribute, EnteredCurrentStatus
\* and QDate
BucketPool ==
    { Ad(1, 1, 7, 5, TRUE),
      Ad(4, 3, 0, 5, TRUE),
      Ad(8, 0, 0, 7, TRUE),
      Ad(9, 0, 0, 0, TRUE) }

\* one schedd whose ads take every branch of index_time
InitBucket ==
    /\ InitRun
    /\ fleet = <<1>>
    /\ args = Args(FALSE, FALSE, TRUE, 2, 0)
    /\ \E h \in SeqsOver(BucketPool, MaxStream) :
          history = [s \in Sources |-> IF s = fleet[1] THEN h ELSE <<>>]

\* two runs over that schedd
SpecBucket == InitBucket /\ [][NextRuns]_vars

\* the steps of process_histories and of main_driver around it
Coordinator ==
    \/ process_histories_dispatch
    \/ chkp_updater_start
    \/ wait_begin
    \/ wait_returns
    \/ wait_timeout
    \/ wait_transport_error
    \/ wait_other_error
    \/ send_poison_pill
    \/ join
    \/ pool_exit

\* the steps of the _chkp_updater process
Updater ==
    \/ chkp_get
    \/ chkp_eof
    \/ update_checkpoint_open
    \/ update_checkpoint_dump

\* one run of the fleet in which the main process and the updater process
\* are scheduled again and again and the clock goes on; a worker may stay
\* where it is for ever
FairSpec ==
    /\ Spec
    /\ WF_vars(Coordinator)
    /\ WF_vars(Updater)
    /\ WF_vars(Tick)

\* the processes of the run are killed (the host goes down, the job is
\* killed from outside) while update_checkpoint, lines 354-360, is under
\* way: checkpoint.json stays as the updater left it
crash ==
    /\ upd.pc \in {"update", "dump"}
    /\ upd' = [upd EXCEPT !.pc = "failed"]
    /\ cpc' = "crashed"
    /\ wk' = [s \in Sources |-> Terminate(wk[s])]
    /\ terminated' = TRUE
    /\ UNCHANGED <<now, ckfile, queue, checkpoint, futures, waitUntil,
                   timed_out, putlog, written, softTimed>>
    /\ UNCHANGED WorkerVars

\* one schedd whose ads all convert
InitCrash ==
    /\ InitRun
    /\ fleet = <<1>>
    /\ args = Args(FALSE, FALSE, TRUE, 2, 0)
    /\ \E h \in SeqsOver(OkPool, MaxStream) :
          history = [s \in Sources |-> IF s = fleet[1] THEN h ELSE <<>>]

NextCrash == NextRuns \/ crash

\* two runs over a schedd, the first of which may be killed while it writes
\* checkpoint.json
SpecCrash == InitCrash /\ [][NextCrash]_vars

\* ------------------------------------------------------------- claims
\* the items put on the queue before the poison pill
RECURSIVE PreSentinel(_)
PreSentinel(log) ==
    IF log = <<>> \/ Head(log) = PoisonPill THEN <<>>
    ELSE <<Head(log)>> \o PreSentinel(Tail(log))

\* the checkpoints source s has put on the queue in this run
PutsOf(s) == SelectSeq(putlog, LAMBDA j : j.name = s)

InSink(s, id) == \E d \in sink : d[1] = s /\ d[3] = id

\* the cursor checkpoint.json holds for s, while it is well-formed
Stored(s) == Lookup(ckfile.map, s)

\* the stored cursor of s is the one this run started from
Stands(s) == ckfile.state # "truncated" => Stored(s) = Lookup(checkpoint, s)

\* C1: in a run that feeds the document store, whenever checkpoint.json
\* holds a cursor c for a source, every ad of that source that converts and
\* whose EnteredCurrentStatus is at most c has its document in the store.
C1_CursorOnlyAfterFlush ==
    Feeding =>
        \A s \in Sources :
            (ckfile.state = "ok" /\ s \in DOMAIN ckfile.map) =>
                \A i \in 1..Len(history[s]) :
                    (history[s][i].ok /\ history[s][i].ECS <= ckfile.map[s].ts)
                        => InSink(s, history[s][i].id)

\* C2: every write of update_checkpoint stores, for every source, a cursor
\* that is not older than the cursor the file held before the write: the
\* mapping it is about to dump is nowhere behind the mapping it loaded, and
\* the dump leaves exactly that mapping in the file.
C2_StoredCursorNeverMovesBack ==
    [][ /\ (upd.pc = "update" /\ upd'.pc = "dump") =>
               \A s \in Sources :
                   Lookup(upd'.checkpoint, s).ts >= Lookup(ckfile.map, s).ts
        /\ (upd.pc = "dump" /\ upd'.pc = "get") =>
               /\ ckfile'.state = "ok"
               /\ ckfile'.map = upd.checkpoint ]_vars

\* C2 witness: the second run has written a cursor beyond the one the first
\* run had left in the file
C2_Witness ==
    /\ runs = 2
    /\ written # <<>>
    /\ ckfile.state = "ok"
    /\ Lookup(checkpoint, written[1].name).ts > 0
    /\ Stored(written[1].name).ts > Lookup(checkpoint, written[1].name).ts

\* C3: a worker that has returned has put exactly one item, (source, final
\* cursor), on the queue if it was not marked timed out, and none if it was
\* marked timed out or returned at the preflight check; in the latter cases
\* the cursor stored for the source is the one the run started from.
C3_OneCheckpointUnlessTimedOut ==
    \A s \in Sources :
        wk[s].pc = "done" =>
            IF wk[s].timed_out \/ wk[s].how = "preflight"
            THEN PutsOf(s) = <<>> /\ Stands(s)
            ELSE PutsOf(s) = <<Job(s, wk[s].last)>>

\* C3 witness: in the second run the worker processed ads beyond the stored
\* cursor, was marked timed out, and process_histories has returned
C3_Witness ==
    /\ runs = 2
    /\ cpc = "returned"
    /\ \E s \in Sources :
          /\ wk[s].pc = "done"
          /\ wk[s].timed_out
          /\ wk[s].start.ts > 0
          /\ wk[s].last.ts > wk[s].start.ts

\* the cursor the store must hold for s once the items of log are written
Expected(log, s) ==
    IF \E i \in 1..Len(log) : log[i].name = s
    THEN log[CHOOSE i \in 1..Len(log) :
                 /\ log[i].name = s
                 /\ \A j \in (i + 1)..Len(log) : log[j].name # s].cursor
    ELSE Lookup(checkpoint, s)

C5_NoUpdateEverDropped ==
    (upd.pc = "done" /\ ~upd.eof) =>
        \A i \in 1..Len(putlog) :
            putlog[i] # PoisonPill =>
                \E j \in 1..Len(written) : written[j] = putlog[i]

\* C5 amended: the updater stops only on the poison pill or on EOFError, and
\* EOFError is raised only after process_histories ended by an exception;
\* until it stops, every item put on the queue is written, in hand or still
\* queued, in the order it was put; when it stops on the poison pill, the
\* jobs written are exactly the items put before the pill.
C5_NothingLostBeforeSentinel ==
    /\ upd.pc = "off" => (written = <<>> /\ queue = putlog)
    /\ upd.pc = "get" => written \o queue = putlog
    /\ upd.pc \in {"update", "dump"} => written \o <<upd.job>> \o queue = putlog
    /\ (upd.pc = "done" /\ ~upd.eof) =>
           /\ \E i \in 1..Len(putlog) : putlog[i] = PoisonPill
           /\ written = PreSentinel(putlog)
    /\ (upd.pc = "done" /\ upd.eof) => cpc = "crashed"

\* C5 witness: the updater stopped on the poison pill after writing two
\* checkpoints, and a checkpoint put after the pill is left on the queue
C5_Witness ==
    /\ upd.pc = "done"
    /\ ~upd.eof
    /\ Len(written) = 2
    /\ queue # <<>>
    /\ Len(putlog) = 4

\* the sources process_histories has not waited on yet
Unprocessed == { fleet[i] : i \in { k \in 1..Len(fleet) : k >= futures } }

\* C6 as claimed: after a hard cancel with three sources still unprocessed,
\* the stored checkpoints of those sources are the ones from before the run.
C6_HardCancelLeavesCheckpoints ==
    (cpc = "returned" /\ timed_out /\ Cardinality(Unprocessed) = 3) =>
        \A s \in Unprocessed : Stored(s) = Lookup(checkpoint, s)

\* C6 amended: after a hard cancel the pool is terminated and no task of an
\* unprocessed source is queued or running any more; a source whose worker
\* was killed has put no checkpoint and keeps, when process_histories has
\* returned, the checkpoint from before the run.
C6_HardCancel ==
    (timed_out /\ cpc \in {"join", "returned", "exited"}) =>
        /\ terminated
        /\ \A s \in Unprocessed :
              /\ wk[s].pc = "killed" \/ Finished(s)
              /\ wk[s].pc = "killed" =>
                    /\ PutsOf(s) = <<>>
                    /\ cpc = "returned" => Stored(s) = Lookup(checkpoint, s)

\* C6 witness: a hard cancel with three sources unprocessed, one killed while
\* running, one killed before it started and one that had completed
C6_Witness ==
    /\ cpc = "returned"
    /\ timed_out
    /\ Cardinality(Unprocessed) = 3
    /\ \E a, b, c \in Unprocessed :
          /\ wk[a].pc = "killed" /\ wk[a].stream # <<>>
          /\ wk[b].pc = "killed" /\ wk[b].stream = <<>>
          /\ wk[c].pc = "done" /\ Stored(c) # Lookup(checkpoint, c)

\* C7: the stored checkpoint of a source whose future.get timed out is not
\* advanced in this run.
C7_SoftTimeoutNoAdvance ==
    \A s \in softTimed : ckfile.state = "ok" => Stored(s) = Lookup(checkpoint, s)

\* C8: an exception of one worker never ends process_histories: the wait
\* loop goes on, the poison pill is sent and the updater is joined.
C8_FailureContained ==
    (\E s \in Sources : wk[s].pc = "raised_other") =>
        cpc \notin {"raised", "crashed"}

\* the ads of a stream that convert
Converted(stream) == { i \in 1..Len(stream) : stream[i].ok }

Max(S) == CHOOSE x \in S : \A y \in S : y <= x

\* the documents of source s in the store
DocsOf(s) == { d \in sink : d[1] = s }

\* the worker of s has returned after the stream ran out, neither stopped by
\* the cap, the deadline, a stream fault or a failed post, nor at preflight
RanOut(s) ==
    /\ wk[s].pc = "done"
    /\ wk[s].how \notin {"preflight", "cap", "deadline", "fault", "sinkerr"}

\* C9: a feeding worker whose stream ran out has skipped exactly the ads
\* that fail conversion and delivered a document for every other ad, has
\* fired one conversion alert if any ad failed and none otherwise, and has
\* put one checkpoint, the running maximum of the starting cursor and the
\* cursors of the converted ads (the cursor of a converted ad whenever one
\* lies beyond the starting cursor).
C9_PartialFailureIsolation ==
    \A s \in Sources :
        (RanOut(s) /\ Feeding) =>
            LET w == wk[s]
                okay == Converted(w.stream)
                top == Max({w.start.ts} \cup { w.stream[i].ECS : i \in okay })
            IN  /\ \A i \in 1..Len(w.stream) :
                       w.stream[i].ok <=> InSink(s, w.stream[i].id)
                /\ Cardinality(DocsOf(s)) = Cardinality(okay)
                /\ w.count = Cardinality(okay)
                /\ w.alerts = IF okay = 1..Len(w.stream) THEN 0 ELSE 1
                /\ PutsOf(s) = <<Job(s, w.last)>>
                /\ w.last.ts = top
                /\ top > w.start.ts =>
                       \E i \in okay :
                           /\ w.stream[i].ECS = top
                           /\ IsStartd(s) => w.stream[i].id = w.last.id

\* C9 witness: three ads, the first and the third fail conversion; one
\* document delivered, one alert, the checkpoint at the second ad's cursor
C9_Witness ==
    \E s \in Sources :
        /\ RanOut(s)
        /\ Feeding
        /\ Len(wk[s].stream) = 3
        /\ Converted(wk[s].stream) = {2}
        /\ Cardinality(DocsOf(s)) = 1
        /\ wk[s].alerts = 1
        /\ PutsOf(s) = <<Job(s, wk[s].last)>>
        /\ wk[s].last.ts = wk[s].stream[2].ECS

\* C10: with a cap N and a stream of more than N ads that convert, a worker
\* that was stopped neither by the deadline nor by a fault has processed
\* exactly N ads, is not marked timed out and has put the cursor of the
\* N-th ad.
C10_RecordCapExact ==
    \A s \in Sources :
        LET w == wk[s]
            N == args.process_max_documents
        IN  ( /\ w.pc = "done"
              /\ N > 0
              /\ Cardinality(Converted(w.stream)) > N
              /\ w.how \notin {"preflight", "deadline", "fault", "sinkerr"} )
            => /\ w.count = N
               /\ ~w.timed_out
               /\ PutsOf(s) = <<Job(s, w.last)>>

\* whether the stream of worker w holds ad
InStream(w, ad) == \E i \in 1..Len(w.stream) : w.stream[i] = ad

\* C11 as stated: from the cursor (id, ts) the query of process_startd
\* selects an ad exactly when its EnteredCurrentStatus is greater than ts, or
\* equals ts while its GlobalJobId differs from id.
C11_SelectsByTimestampThenId ==
    \A s \in Startds :
        Running(s) =>
            \A i \in 1..Len(history[s]) :
                LET ad == history[s][i]
                    c == wk[s].start
                IN  InStream(wk[s], ad) <=>
                        \/ ad.ECS > c.ts
                        \/ ad.ECS = c.ts /\ ad.id # c.id

\* C11 amended: from the cursor (id, ts) the query of process_startd
\* selects exactly the ads the startd yields before the first ad that
\* matches the cursor on both GlobalJobId and EnteredCurrentStatus; that ad
\* and every ad after it are left out, whatever their timestamps.
C11_SelectsUntilCursorAd ==
    \A s \in Startds :
        Running(s) =>
            \A i \in 1..Len(history[s]) :
                InStream(wk[s], history[s][i]) <=>
                    \A j \in 1..i :
                        \/ history[s][j].id # wk[s].start.id
                        \/ history[s][j].ECS # wk[s].start.ts

\* C11 witness: the second run starts from the ad of a job, the ad of a job
\* that ended since is selected, and the ad of another job with the
\* timestamp of the cursor, which the startd yields after the cursor's, is
\* not
C11_Witness ==
    \E s \in Startds :
        /\ runs = 2
        /\ Running(s)
        /\ wk[s].start.id # Unknown
        /\ \E i, j \in 1..Len(history[s]) :
              /\ history[s][i].ECS > wk[s].start.ts
              /\ InStream(wk[s], history[s][i])
              /\ history[s][j].ECS = wk[s].start.ts
              /\ history[s][j].id # wk[s].start.id
              /\ ~InStream(wk[s], history[s][j])

FirstPositive(ad, t) ==
    IF ad.T > 0 THEN ad.T
    ELSE IF ad.ECS > 0 THEN ad.ECS
    ELSE IF ad.QDate > 0 THEN ad.QDate
    ELSE t

\* every document in the buffer of a running worker lies in the bucket of
\* FirstPositive, with the fallback the worker has for t
BufferedUnder(t(_)) ==
    \A s \in Sources :
        Running(s) =>
            \A k \in 1..Len(wk[s].buffered) :
                \A n \in 1..Len(wk[s].buffered[k].ads) :
                    \A i \in 1..Len(wk[s].stream) :
                        unique_doc_id(wk[s].stream[i]) = wk[s].buffered[k].ads[n]
                            => wk[s].buffered[k].idx =
                                   get_index(FirstPositive(wk[s].stream[i], t(s)))

\* time.time() of line 50 in the worker of s
StartTimeOf(s) == wk[s].my_start

\* _LAUNCH_TIME as the worker of s sees it
LaunchTimeOf(s) == LAUNCH_TIME

\* C13 as stated: the bucket of a record is that of its index attribute if
\* positive, else of EnteredCurrentStatus if positive, else of QDate if
\* positive, else of the worker's own start time.
C13_FallsBackToWorkerStart == BufferedUnder(StartTimeOf)

\* C13 amended: the bucket of a record is that of its index attribute if
\* positive, else of EnteredCurrentStatus if positive, else of QDate if
\* positive, else of _LAUNCH_TIME, the time the module was imported, which
\* is the same for every worker of a run.
C13_FallsBackToLaunchTime == BufferedUnder(LaunchTimeOf)

\* C13 witness: a worker that started after the launch holds a document of
\* an ad with no positive timestamp and one of an ad with a QDate only
C13_Witness ==
    \E s \in Sources :
        /\ Running(s)
        /\ wk[s].my_start > LAUNCH_TIME
        /\ \E i, j \in 1..Len(wk[s].stream) :
              LET a == wk[s].stream[i]
                  b == wk[s].stream[j]
              IN  /\ a.T <= 0 /\ a.ECS <= 0 /\ a.QDate <= 0
                  /\ b.T <= 0 /\ b.ECS <= 0 /\ b.QDate > 0
                  /\ \E k, l \in 1..Len(wk[s].buffered) :
                        /\ \E n \in 1..Len(wk[s].buffered[k].ads) :
                              wk[s].buffered[k].ads[n] = unique_doc_id(a)
                        /\ \E n \in 1..Len(wk[s].buffered[l].ads) :
                              wk[s].buffered[l].ads[n] = unique_doc_id(b)

\* C14: a run that starts from the cursor the run before it started from,
\* over the same ads, whose documents are all in the store, leaves the store
\* as it is.
C14_RerunLeavesSinkUnchanged ==
    [][ ( /\ runs = 2
          /\ \A s \in Sources :
                /\ wk[s].pc # "none" => wk[s].start = DefaultCursor
                /\ \A i \in 1..Len(history[s]) :
                      history[s][i].ok => InSink(s, history[s][i].id) )
        => sink' = sink ]_vars

\* C15: whatever checkpoint.json holds, load_checkpoint raises nothing:
\* process_histories gets the stored mapping if the file is well-formed and
\* the empty mapping if it is absent or cut short, and dispatches, and
\* update_checkpoint gets on to its write.
C15_LoadNeverRaises ==
    [][ /\ (cpc = "start" /\ cpc' # "start") =>
               /\ cpc' = "dispatched"
               /\ checkpoint' = IF ckfile.state = "ok" THEN ckfile.map ELSE <<>>
        /\ (upd.pc = "update" /\ upd'.pc # "update" /\ cpc' = cpc) =>
               upd'.pc = "dump" ]_vars

\* C16: at no instant does a reader of checkpoint.json find anything but a
\* complete mapping (or no file, before the first write).
C16_SaveIsAtomic == ckfile.state # "truncated"

\* the updates of source s in a log of updates
UpdatesOf(log, s) == SelectSeq(log, LAMBDA j : j.name = s)

\* C17: checkpoint.json changes only in a step of the updater inside
\* update_checkpoint, a step in which no worker and not process_histories
\* moves; the mapping the updater is about to write differs from the one it
\* read in the entry of its own source only; and after each write the file
\* holds, for every source, the cursor of the last update written for it.
C17_SingleWriter ==
    [][ /\ ckfile' # ckfile =>
               /\ upd.pc \in {"update", "dump"}
               /\ upd'.pc # upd.pc
               /\ wk' = wk /\ cpc' = cpc /\ queue' = queue
        /\ (upd.pc = "update" /\ upd'.pc = "dump") =>
               \A s \in Sources \ {upd.job.name} :
                   /\ s \in DOMAIN upd'.checkpoint <=> s \in DOMAIN ckfile.map
                   /\ Lookup(upd'.checkpoint, s) = Lookup(ckfile.map, s)
        /\ ckfile'.state = "ok" =>
               \A s \in Sources :
                   LET w == UpdatesOf(written', s)
                   IN  IF w = <<>> THEN s \notin DOMAIN ckfile'.map
                       ELSE /\ s \in DOMAIN ckfile'.map
                            /\ ckfile'.map[s] = w[Len(w)].cursor ]_vars

\* C17 witness: the file holds the entries of two sources, written one after
\* the other, while a third worker is still running
C17_Witness ==
    /\ ckfile.state = "ok"
    /\ \E s, t \in DOMAIN ckfile.map : s # t
    /\ Len(written) >= 2
    /\ \E s \in Sources : Running(s)

\* C18: whatever the workers do, process_histories comes to its end: the
\* poison pill is sent, the updater takes it and stops, and join returns.
C18_AlwaysTerminates == <>(cpc \in {"returned", "exited"})

\* C19: a worker that starts when the remaining global time is zero or less
\* returns at once: it makes no query, and it sends nothing to the document
\* store and puts nothing on the checkpoint queue.
C19_PreflightAtZero ==
    [][ \A s \in Sources :
            ( /\ wk[s].pc = "queued"
              /\ wk'[s].pc \notin {"queued", "killed"}
              /\ time_remaining(now) <= 0 )
            => /\ wk'[s].pc = "done"
               /\ wk'[s].how = "preflight"
               /\ wk'[s].stream = <<>>
               /\ wk'[s].last = wk[s].start
               /\ sink' = sink
               /\ queue' = queue ]_vars

C21_ConsumerStartedBeforeDispatch ==
    [][ \A s \in Sources :
            (wk[s].pc = "none" /\ wk'[s].pc = "queued") => upd.pc # "off" ]_vars

\* C21 amended: the updater is started after every task has been submitted
\* to the pool; the queue exists before, nothing is taken from it while
\* there is no updater, and the checkpoints the workers have put by then are
\* all on the queue when the updater starts.
C21_ConsumerStartedAfterDispatch ==
    [][ /\ \A s \in Sources :
               (wk[s].pc = "none" /\ wk'[s].pc = "queued") => upd.pc = "off"
        /\ upd.pc = "off" => queue = putlog
        /\ (upd.pc = "off" /\ upd'.pc # "off") =>
               /\ \A i \in 1..Len(fleet) : wk[fleet[i]].pc # "none"
               /\ upd'.pc = "get"
               /\ queue' = putlog ]_vars

\* C21 witness: a worker has put its checkpoint on the queue and the updater
\* is not started yet
C21_Witness ==
    /\ cpc = "dispatched"
    /\ upd.pc = "off"
    /\ queue # <<>>

\* C22: a worker one of whose posts to the document store has failed, at a
\* full batch inside the loop or at the final flush, puts no checkpoint, and
\* the cursor checkpoint.json holds for its source stays the one the run
\* started from.
C22_NoCheckpointAfterSinkError ==
    \A s \in Sources :
        (wk[s].how = "sinkerr" \/ wk[s].pc = "raised_transport") =>
            /\ PutsOf(s) = <<>>
            /\ Stands(s)

\* the ads worker w has taken from its stream and converted
ProcessedBy(w) == { i \in 1..(w.pos - 1) : w.stream[i].ok }

\* the newest of the starting cursor and the ads worker w has processed
NewestProcessed(w) ==
    Max({w.start.ts} \cup { w.stream[i].ECS : i \in ProcessedBy(w) })

====
